---------------------------- MODULE Spec2Model ----------------------------
(***************************************************************************)
(* Beholder signatures (marmistrz/beholders): Schnorr + KZG openings       *)
(* under the Fischlin transform.  The model follows src/src/proof.rs,      *)
(* src/src/hashing.rs, src/src/schnorr.rs, src/src/commitment.rs and       *)
(* src/src/util.rs.                                                        *)
(*                                                                         *)
(* Abstractions.  The BLS12-381 scalar field is the prime field Z_Q and a  *)
(* G1 point is written by its discrete logarithm to the generator, so the  *)
(* generator is 1, G1 addition is addition mod Q and scalar multiplication *)
(* is multiplication mod Q.  KZG is computed over that field with the      *)
(* trusted-setup secret TauSecret.  A [u64; 8] hash state is written as    *)
(* its 32 little-endian u16 lanes (the bytemuck cast of hashing.rs:49);    *)
(* u64 word j is lanes 4j+1 .. 4j+4 of the sequence.  compress512 and      *)
(* SHA-512 are a fixed mixing function.                                    *)
(***************************************************************************)
EXTENDS Integers, Sequences, FiniteSets, TLC

(* ------------------------------ bounds -------------------------------- *)
\* largest number of Fischlin iterations a signing call asks for
MaxFisch == 4
\* largest number of slots of a proof handed to the verifier from outside
MaxSlots == 2
\* challenges of proofs built outside Proof::prove are drawn from 0..MaxForgeC
MaxForgeC == 3
\* largest number of opening checks the backend fails during one Proof::verify
MaxBackendErrs == 1

(* ------------------------- field and group ---------------------------- *)
\* order of the scalar field Fr and of the group G1
Q == 17
\* log2 of the FFT domain the KZG settings were built with
FFTScale == 3
\* the secret of the trusted setup
TauSecret == 3
\* a primitive 2^FFTScale-th root of unity of Z_Q
RootGen == 9

Min(a, b) == IF a <= b THEN a ELSE b

RECURSIVE Pow2(_)
Pow2(n) == IF n = 0 THEN 1 ELSE 2 * Pow2(n - 1)

RECURSIVE PowMod(_, _)
PowMod(b, e) == IF e = 0 THEN 1 ELSE (b * PowMod(b, e - 1)) % Q

FrAdd(x, y) == (x + y) % Q
FrSub(x, y) == (x - y + Q) % Q
FrMul(x, y) == (x * y) % Q
FrInverses == [x \in 1..(Q - 1) |-> CHOOSE y \in 1..(Q - 1) : (x * y) % Q = 1]
FrInv(x) == FrInverses[x]
FrFromU64(c) == c % Q

G1Generator == 1
G1Mul(p, s) == (p * s) % Q
G1Add(p, q) == (p + q) % Q

(* ----------------------------- schnorr.rs ----------------------------- *)
SchnorrVerify(s, pk) ==
    LET g == G1Generator
        c == FrFromU64(s.c)
    IN  G1Add(G1Mul(pk, c), s.a) = G1Mul(g, s.z)

\* a faulty response: the roles of the nonce and the secret key are swapped
SchnorrProveSwapped(sk, r, c) ==
    LET cfr == FrFromU64(c)
        g == G1Generator
    IN  [a |-> G1Mul(g, r), c |-> c, z |-> FrAdd(sk, FrMul(cfr, r))]

SchnorrProve(sk, r, c) ==
    LET cfr == FrFromU64(c)
        g == G1Generator
    IN  [a |-> G1Mul(g, r), c |-> c, z |-> FrAdd(r, FrMul(cfr, sk))]

\* 1u32 << difficulty: a shift by 32 or more panics where overflow checks
\* are compiled in and shifts by difficulty mod 32 where they are not.
MaxcPanics(difficulty, checks) == difficulty >= 32 /\ checks
maxc(difficulty) == Pow2(difficulty % 32)

(* ------------------------------ util.rs ------------------------------- *)
\* u16 lanes of a HashOutput, a [u64; 8]
Lanes == 32

\* a ^ b on u16 values, four bits at a time
RECURSIVE XorBits(_, _, _)
XorBits(a, b, n) ==
    IF n = 0 THEN 0
    ELSE ((a + b) % 2) + 2 * XorBits(a \div 2, b \div 2, n - 1)

XorNibble == [a \in 0..15 |-> [b \in 0..15 |-> XorBits(a, b, 4)]]

\* a faulty a ^ b: the high byte is dropped
XorIntLowByte(a, b) ==
    XorNibble[a % 16][b % 16]
    + 16 * XorNibble[(a \div 16) % 16][(b \div 16) % 16]

XorInt(a, b) ==
    XorNibble[a % 16][b % 16]
    + 16 * XorNibble[(a \div 16) % 16][(b \div 16) % 16]
    + 256 * XorNibble[(a \div 256) % 16][(b \div 256) % 16]
    + 4096 * XorNibble[(a \div 4096) % 16][(b \div 4096) % 16]

bitxor(x, y) == [l \in 1..Lanes |-> XorInt(x[l], y[l])]

(* ----------------------------- hashing.rs ----------------------------- *)
HashOutputDefault == [l \in 1..Lanes |-> 0]

Absorb(acc, x) == (acc * 37 + x + 11) % 2039

\* absorbs xs[k], xs[k+1], ... into acc
RECURSIVE AbsorbFrom(_, _, _)
AbsorbFrom(acc, xs, k) ==
    IF k > Len(xs) THEN acc ELSE AbsorbFrom(Absorb(acc, xs[k]), xs, k + 1)

\* the 32 u16 lanes squeezed out of an absorbed value
Squeeze(h) ==
    [l \in 1..Lanes |-> ((h + 1) * (2 * l + 1) * 4099 + 977 * (l - 1)) % 65536]

\* the chaining value a compression starts from: the first u64 word of it
AbsorbState(state) ==
    Absorb(Absorb(Absorb(Absorb(1, state[1]), state[2]), state[3]), state[4])

\* one call of the SHA-512 compression function on a 128-byte block
compress512(state, block) == Squeeze(AbsorbFrom(AbsorbState(state), block, 1))

\* SHA-512 of a byte string, cast to [u64; 8]
Sha512(bytes) == Squeeze(AbsorbFrom(5, bytes, 1))

prelude(pk, com, a_i) == Sha512(<<pk, com>> \o a_i)

DeriveIndicesPanics(num_indices, data_len) ==
    \/ data_len > 65535
    \/ num_indices > 32
    \/ data_len = 0

\* a faulty take: one value more than asked for
DeriveIndicesOneMore(i, c, num_indices, data_len) ==
    LET state == compress512(HashOutputDefault, <<i, c>>)
    IN  [k \in 1..Min(num_indices + 1, Lanes) |-> state[k] % data_len]

derive_indices(i, c, num_indices, data_len) ==
    LET state == compress512(HashOutputDefault, <<i, c>>)
    IN  [k \in 1..Min(num_indices, Lanes) |-> state[k] % data_len]

IndividualHashPanics(fisch_iter) == fisch_iter > 65535

individual_hash(pre, schnorr, fisch_iter, k, val, opening) ==
    compress512(pre, <<opening, schnorr.c, schnorr.z, val, k, fisch_iter>>)

RECURSIVE TrailingZeros16(_)
TrailingZeros16(x) == IF x % 2 = 1 THEN 0 ELSE 1 + TrailingZeros16(x \div 2)

\* hash_output[0].trailing_zeros() of the first u64 word (lanes 1..4)
TrailingZerosWord0(h) ==
    IF h[1] # 0 THEN TrailingZeros16(h[1])
    ELSE IF h[2] # 0 THEN 16 + TrailingZeros16(h[2])
    ELSE IF h[3] # 0 THEN 32 + TrailingZeros16(h[3])
    ELSE IF h[4] # 0 THEN 48 + TrailingZeros16(h[4])
    ELSE 64

\* a faulty comparison: one zero bit more than asked for is required
PowPassStrict(hash_output, difficulty) == TrailingZerosWord0(hash_output) > difficulty

PowPassPanics(difficulty) == difficulty > 64
pow_pass(hash_output, difficulty) == TrailingZerosWord0(hash_output) >= difficulty

(* --------------------------- commitment.rs ---------------------------- *)
\* roots_of_unity of the FFT settings: 2^FFTScale + 1 entries
RootsOfUnity == [j \in 1..(Pow2(FFTScale) + 1) |-> PowMod(RootGen, j - 1)]

get_point(data_len, i) ==
    LET roots == RootsOfUnity
        stride == (Len(roots) - 1) \div data_len
    IN  roots[i * stride + 1]

RECURSIVE SumSeq(_)
SumSeq(s) == IF s = << >> THEN 0 ELSE (Head(s) + SumSeq(Tail(s))) % Q

RECURSIVE ProdSeq(_)
ProdSeq(s) == IF s = << >> THEN 1 ELSE (Head(s) * ProdSeq(Tail(s))) % Q

\* the value at x of the polynomial interpolate() returns for data
PolyEval(data, x) ==
    LET n == Len(data)
        w(i) == get_point(n, i - 1)
        L(i) == ProdSeq([j \in 1..n |->
                    IF j = i THEN 1
                    ELSE FrMul(FrSub(x, w(j)), FrInv(FrSub(w(i), w(j))))])
    IN  SumSeq([i \in 1..n |-> FrMul(data[i], L(i))])

commit_to_poly(data) == G1Mul(G1Generator, PolyEval(data, TauSecret))

compute_proof_single(data, x) ==
    G1Mul(G1Generator,
          FrMul(FrSub(PolyEval(data, TauSecret), PolyEval(data, x)),
                FrInv(FrSub(TauSecret, x))))

\* the pairing check e(com - y G, G2) = e(proof, (tau - x) G2)
check_proof_single(com, proof, x, value) ==
    FrSub(com, G1Mul(G1Generator, value)) = FrMul(proof, FrSub(TauSecret, x))

\* FK20SingleSettings::new(kzg_settings, n2) fails unless n2 is a power of
\* two, at least 2 and at most the width of the FFT settings
Fk20SettingsFail(n2) == n2 \notin {Pow2(e) : e \in 1..FFTScale}

\* data_availability_optimized: the openings on the domain of size 2N
data_availability_optimized(data) ==
    LET n2 == 2 * Len(data)
    IN  [j \in 1..n2 |-> compute_proof_single(data, get_point(n2, j - 1))]

\* keeps the outputs whose 0-based index is odd
OddIndexed(outputs) == [i \in 1..(Len(outputs) \div 2) |-> outputs[2 * i]]

\* keeps the outputs whose 0-based index is even
EvenIndexed(fk20) == [i \in 1..(Len(fk20) \div 2) |-> fk20[2 * i - 1]]

open_all_fk20(data) ==
    [com |-> commit_to_poly(data),
     openings |-> EvenIndexed(data_availability_optimized(data))]

\* the test helper open_all: one compute_proof_single per data point
open_all(data) ==
    [i \in 1..Len(data) |-> compute_proof_single(data, get_point(Len(data), i - 1))]

(* ------------------- direct calls of the functions -------------------- *)
VARIABLES
    libCall,        \* the function called directly and its arguments
    libRet,         \* what that call returned
    libPrev         \* the call made before it and what it returned

NoCall == [fn |-> "none"]

(* ------------------------------ proof.rs ------------------------------ *)
\* Size of the data chunk in bytes
CHUNK_SIZE == 32

\* Result<bool, String> of a verification, or the unwinding of a panic
Ok(b) == [val |-> b, kind |-> "Ok"]
Err(e) == [kind |-> "Err", err |-> e]
Panic == [kind |-> "Panic"]
\* a slot whose verification has not run
NotRun == [kind |-> "NotRun"]

\* enum FischIter, and the two states of a slot of a collect buffer that
\* holds no FischIter: not yet computed, and its worker panicked
Commitment(com) == [com |-> com, tag |-> "Commitment"]
BaseProof(schnorr, data, openings) ==
    [schnorr |-> schnorr, data |-> data, openings |-> openings, tag |-> "BaseProof"]
Pending == [tag |-> "Pending"]
Panicked == [tag |-> "Panicked"]

\* a faulty accessor: only a BaseProof yields its commitment
FischIterAOfProofOnly(fi) ==
    IF fi.tag = "Commitment" THEN G1Generator ELSE fi.schnorr.a

FischIterA(fi) == IF fi.tag = "Commitment" THEN fi.com ELSE fi.schnorr.a

\* The loop of BaseProof::verify over izip!(indices, data, openings), from
\* 1-based position k on.  errk is the position at which the backend makes
\* check_proof_single return Err (0: at none).  calls counts the calls of
\* check_proof_single made.
RECURSIVE VerifyOpenings(_, _, _, _, _, _, _, _)
VerifyOpenings(bp, indices, k, hash, fisch_iter, pre, vcom, ctx) ==
    IF k > Min(Len(indices), Min(Len(bp.data), Len(bp.openings)))
    THEN [hash |-> hash, out |-> Ok(TRUE), calls |-> k - 1]
    ELSE LET idx == indices[k]
             value == bp.data[k]
             opening == bp.openings[k]
             xk == get_point(ctx.data_len, idx)
         IN  IF ctx.errk = k
             THEN [hash |-> hash, out |-> Err(<<"kzg", fisch_iter, k - 1>>), calls |-> k]
             ELSE IF ~check_proof_single(vcom, opening, xk, value)
             THEN [hash |-> hash, out |-> Ok(FALSE), calls |-> k]
             ELSE IF IndividualHashPanics(fisch_iter)
             THEN [hash |-> hash, out |-> Panic, calls |-> k]
             ELSE VerifyOpenings(bp, indices, k + 1,
                     bitxor(hash, individual_hash(pre, bp.schnorr, fisch_iter,
                                                  k - 1, value, opening)),
                     fisch_iter, pre, vcom, ctx)

\* the bound on the challenge that BaseProof::verify enforces
ChallengeInBound(c, difficulty) == c <= maxc(difficulty)

\* a faulty BaseProof::verify: the Schnorr equation is checked after the
\* openings rather than before them
BaseProofVerifyOpeningsFirst(bp, fisch_iter, pre, pk, vcom, ctx) ==
    IF MaxcPanics(ctx.difficulty, ctx.checks) THEN [out |-> Panic, calls |-> 0]
    ELSE IF ~ChallengeInBound(bp.schnorr.c, ctx.difficulty)
    THEN [out |-> Ok(FALSE), calls |-> 0]
    ELSE IF DeriveIndicesPanics(ctx.mvalue, ctx.data_len) THEN [out |-> Panic, calls |-> 0]
    ELSE IF Len(bp.data) # Len(bp.openings) THEN [out |-> Panic, calls |-> 0]
    ELSE LET indices == derive_indices(fisch_iter, bp.schnorr.c, ctx.mvalue, ctx.data_len)
             loop == VerifyOpenings(bp, indices, 1, HashOutputDefault,
                                    fisch_iter, pre, vcom, ctx)
         IN  IF loop.out # Ok(TRUE) THEN [out |-> loop.out, calls |-> loop.calls]
             ELSE IF ~SchnorrVerify(bp.schnorr, pk)
             THEN [out |-> Ok(FALSE), calls |-> loop.calls]
             ELSE IF PowPassPanics(ctx.difficulty)
             THEN [out |-> Panic, calls |-> loop.calls]
             ELSE IF ~pow_pass(loop.hash, ctx.difficulty)
             THEN [out |-> Ok(FALSE), calls |-> loop.calls]
             ELSE [out |-> Ok(TRUE), calls |-> loop.calls]

\* BaseProof::verify; ctx = [data_len, difficulty, mvalue, checks, errk]
BaseProofVerifyRun(bp, fisch_iter, pre, pk, vcom, ctx) ==
    IF MaxcPanics(ctx.difficulty, ctx.checks) THEN [out |-> Panic, calls |-> 0]
    ELSE IF ~ChallengeInBound(bp.schnorr.c, ctx.difficulty)
    THEN [out |-> Ok(FALSE), calls |-> 0]
    ELSE IF ~SchnorrVerify(bp.schnorr, pk) THEN [out |-> Ok(FALSE), calls |-> 0]
    ELSE IF DeriveIndicesPanics(ctx.mvalue, ctx.data_len) THEN [out |-> Panic, calls |-> 0]
    ELSE IF Len(bp.data) # Len(bp.openings) THEN [out |-> Panic, calls |-> 0]
    ELSE LET indices == derive_indices(fisch_iter, bp.schnorr.c, ctx.mvalue, ctx.data_len)
             loop == VerifyOpenings(bp, indices, 1, HashOutputDefault,
                                    fisch_iter, pre, vcom, ctx)
         IN  IF loop.out # Ok(TRUE) THEN [out |-> loop.out, calls |-> loop.calls]
             ELSE IF PowPassPanics(ctx.difficulty)
             THEN [out |-> Panic, calls |-> loop.calls]
             ELSE IF ~pow_pass(loop.hash, ctx.difficulty)
             THEN [out |-> Ok(FALSE), calls |-> loop.calls]
             ELSE [out |-> Ok(TRUE), calls |-> loop.calls]

BaseProofVerify(bp, fisch_iter, pre, pk, vcom, ctx) ==
    BaseProofVerifyRun(bp, fisch_iter, pre, pk, vcom, ctx).out

\* FischIter::verify
FischIterVerifyRun(fi, fisch_iter, pre, pk, vcom, ctx) ==
    IF fi.tag = "Commitment" THEN [out |-> Ok(FALSE), calls |-> 0]
    ELSE BaseProofVerifyRun(fi, fisch_iter, pre, pk, vcom, ctx)

FischIterVerify(fi, fisch_iter, pre, pk, vcom, ctx) ==
    FischIterVerifyRun(fi, fisch_iter, pre, pk, vcom, ctx).out

\* the XOR of the individual hashes of the positions k.. of one candidate
RECURSIVE PowHash(_, _, _, _, _, _, _)
PowHash(pre, schnorr, fisch_iter, sel_data, sel_openings, k, hash) ==
    IF k > Min(Len(sel_data), Len(sel_openings)) THEN hash
    ELSE PowHash(pre, schnorr, fisch_iter, sel_data, sel_openings, k + 1,
                 bitxor(hash, individual_hash(pre, schnorr, fisch_iter, k - 1,
                                              sel_data[k], sel_openings[k])))

\* a faulty mining loop body: it takes the first values and openings rather
\* than those at the derived indices
CandidateUnselected(fisch_iter, opns, r, sk_, dat, mvalue, c) ==
    LET schnorr == SchnorrProve(sk_, r, c)
        indices == derive_indices(fisch_iter, c, mvalue, Len(dat))
    IN  BaseProof(schnorr,
                  [k \in 1..Len(indices) |-> dat[((k - 1) % Len(dat)) + 1]],
                  [k \in 1..Len(indices) |-> opns[((k - 1) % Len(opns)) + 1]])

\* what the body of the mining loop builds for challenge c
Candidate(fisch_iter, opns, r, sk_, dat, mvalue, c) ==
    LET schnorr == SchnorrProve(sk_, r, c)
        indices == derive_indices(fisch_iter, c, mvalue, Len(dat))
    IN  BaseProof(schnorr,
                  [k \in 1..Len(indices) |-> dat[indices[k] + 1]],
                  [k \in 1..Len(indices) |-> opns[indices[k] + 1]])

\* a faulty mining loop: it tries the challenges from the largest down
RECURSIVE MineDescending(_, _, _, _, _, _, _, _, _, _)
MineDescending(fisch_iter, pre, opns, r, sk_, dat, difficulty, mvalue, c, limit) ==
    IF c >= limit THEN [tag |-> "None"]
    ELSE IF DeriveIndicesPanics(mvalue, Len(dat)) THEN Panicked
    ELSE LET bp == Candidate(fisch_iter, opns, r, sk_, dat, mvalue, limit - 1 - c)
             hash == PowHash(pre, bp.schnorr, fisch_iter, bp.data, bp.openings,
                             1, HashOutputDefault)
         IN  IF mvalue > 0 /\ IndividualHashPanics(fisch_iter) THEN Panicked
             ELSE IF PowPassPanics(difficulty) THEN Panicked
             ELSE IF pow_pass(hash, difficulty) THEN bp
             ELSE MineDescending(fisch_iter, pre, opns, r, sk_, dat, difficulty,
                                 mvalue, c + 1, limit)

\* the loop `for c in 0..maxc` of BaseProof::prove, from challenge c on
RECURSIVE Mine(_, _, _, _, _, _, _, _, _, _)
Mine(fisch_iter, pre, opns, r, sk_, dat, difficulty, mvalue, c, limit) ==
    IF c >= limit THEN [tag |-> "None"]
    ELSE IF DeriveIndicesPanics(mvalue, Len(dat)) THEN Panicked
    ELSE LET bp == Candidate(fisch_iter, opns, r, sk_, dat, mvalue, c)
             hash == PowHash(pre, bp.schnorr, fisch_iter, bp.data, bp.openings,
                             1, HashOutputDefault)
         IN  IF mvalue > 0 /\ IndividualHashPanics(fisch_iter) THEN Panicked
             ELSE IF PowPassPanics(difficulty) THEN Panicked
             ELSE IF pow_pass(hash, difficulty) THEN bp
             ELSE Mine(fisch_iter, pre, opns, r, sk_, dat, difficulty, mvalue,
                       c + 1, limit)

\* a faulty BaseProof::prove: the loop runs over 0..=maxc
BaseProofProveInclusive(fisch_iter, pre, opns, r, sk_, dat, difficulty, mvalue, checks) ==
    IF Len(dat) # Len(opns) THEN Panicked
    ELSE IF MaxcPanics(difficulty, checks) THEN Panicked
    ELSE Mine(fisch_iter, pre, opns, r, sk_, dat, difficulty, mvalue, 0,
              maxc(difficulty) + 1)

\* a faulty BaseProof::prove: the search goes on after the challenge the
\* call before it returned
BaseProofProveResuming(fisch_iter, pre, opns, r, sk_, dat, difficulty, mvalue, checks) ==
    IF Len(dat) # Len(opns) THEN Panicked
    ELSE IF MaxcPanics(difficulty, checks) THEN Panicked
    ELSE Mine(fisch_iter, pre, opns, r, sk_, dat, difficulty, mvalue,
              IF libCall.fn = "BaseProof::prove" /\ libRet.result.tag = "BaseProof"
              THEN libRet.result.schnorr.c + 1 ELSE 0,
              maxc(difficulty))

\* BaseProof::prove: a BaseProof, None, or a panic
BaseProofProve(fisch_iter, pre, opns, r, sk_, dat, difficulty, mvalue, checks) ==
    IF Len(dat) # Len(opns) THEN Panicked
    ELSE IF MaxcPanics(difficulty, checks) THEN Panicked
    ELSE Mine(fisch_iter, pre, opns, r, sk_, dat, difficulty, mvalue, 0,
              maxc(difficulty))

\* a faulty FischIter::prove: an iteration that found nothing leaves nothing
FischIterProveNoFallback(fisch_iter, pre, opns, r, sk_, dat, difficulty, mvalue, checks) ==
    BaseProofProve(fisch_iter, pre, opns, r, sk_, dat, difficulty, mvalue, checks)

\* FischIter::prove
FischIterProve(fisch_iter, pre, opns, r, sk_, dat, difficulty, mvalue, checks) ==
    LET bp == BaseProofProve(fisch_iter, pre, opns, r, sk_, dat, difficulty,
                             mvalue, checks)
    IN  IF bp.tag = "None" THEN Commitment(G1Mul(G1Generator, r)) ELSE bp

\* Proof::prelude
ProofPrelude(fisch_iters_, pk, vcom) ==
    prelude(pk, vcom, [i \in 1..Len(fisch_iters_) |-> FischIterA(fisch_iters_[i])])

IsPowerOfTwo(n) == \E e \in 0..16 : n = Pow2(e)

\* data.chunks_exact(CHUNK_SIZE): the number of whole chunks
NumChunks(nbytes_) == nbytes_ \div CHUNK_SIZE

\* a faulty collect: results are stored in the order the items finish
CollectInCompletionOrder(buf, fisch_iter, res) ==
    LET free == CHOOSE j \in 1..Len(buf) :
                    /\ buf[j] = Pending
                    /\ \A l \in 1..(j - 1) : buf[l] # Pending
    IN  [buf EXCEPT ![free] = res]

\* where the indexed parallel collect puts the result of item fisch_iter
CollectInto(buf, fisch_iter, res) == [buf EXCEPT ![fisch_iter + 1] = res]

(* --------------------------- the inputs ------------------------------- *)
\* byte lengths of the data handed to Proof::prove
DataLens == {16, 32, 48, 64, 128, 256}
\* bit difficulties and numbers of indices per transcript
Difficulties == {1, 2, 33, 65}
MValues == {2, 33}
\* secret keys
SecretKeys == {0, 3}
\* seeds of the generator behind TFr::rand()
RandSeeds == {1, 2}

\* the field elements of the chunks of a byte string of nbytes_ bytes
Chunks(nbytes_) == [i \in 1..NumChunks(nbytes_) |-> (5 + i * i) % Q]

\* the i-th value TFr::rand() returns under a seed
Rand(seed, i) == 1 + ((7 * seed + 3 * i + seed * i * i) % (Q - 1))

VARIABLES
    overflowChecks, \* the build panics on arithmetic overflow (debug) or not
    sk,             \* the signer's secret key
    nbytes,         \* data.len() of the bytes handed to Proof::prove
    chunks,         \* the field elements of the data
    nfisch, difficulty, mvalue,
    pc,             \* "init", "mining", "proved", "recv", "verifying", "done"
    com, openings,  \* what open_all_fk20 returned
    r_i,            \* the Schnorr nonces
    proverPrelude,  \* the prelude the iterations are mined with
    fisch_iters,    \* the buffer the parallel iterations are collected into
    mined,          \* the 0-based iterations whose closure has run
    completion,     \* while the collect runs: the order the closures finished in
    proveResult,    \* what Proof::prove returned: "None" while it has not
    fk20,           \* open_all_fk20: "none" (not called), "ok", "err"
    proof,          \* the fisch_iters of the proof handed to Proof::verify
    replaced,       \* 0-based slots replaced by their Schnorr commitment
    verifierPrelude,\* the prelude Proof::verify recomputed
    verifications,  \* per slot: NotRun, or what FischIter::verify returned
    kzgCalls,       \* per slot: calls of check_proof_single made
    verifyResult    \* what Proof::verify returned: "None" while it has not

vars == <<overflowChecks, sk, nbytes, chunks, nfisch, difficulty, mvalue, pc,
          com, openings, r_i, proverPrelude, fisch_iters, mined,
          completion, proveResult, fk20, proof, replaced, verifierPrelude, verifications,
          kzgCalls, verifyResult, libCall, libRet, libPrev>>

inputs == <<overflowChecks, sk, nbytes, chunks, nfisch, difficulty, mvalue>>
libVars == <<libCall, libRet, libPrev>>
proverVars == <<com, openings, r_i, proverPrelude, fisch_iters, mined,
                completion, proveResult, fk20>>
verifierVars == <<verifierPrelude, verifications, kzgCalls, verifyResult>>

NoResult == [kind |-> "None"]
PublicKey == G1Mul(G1Generator, sk)

Init ==
    /\ overflowChecks \in BOOLEAN
    /\ sk \in SecretKeys
    /\ nbytes \in DataLens
    /\ chunks = Chunks(nbytes)
    /\ nfisch \in 0..MaxFisch
    /\ difficulty \in Difficulties
    /\ mvalue \in MValues
    /\ pc = "init"
    /\ com = 0
    /\ openings = << >>
    /\ r_i = << >>
    /\ proverPrelude = HashOutputDefault
    /\ fisch_iters = << >>
    /\ mined = {}
    /\ completion = << >>
    /\ proveResult = NoResult
    /\ fk20 = "none"
    /\ proof = << >>
    /\ replaced = {}
    /\ verifierPrelude = HashOutputDefault
    /\ verifications = << >>
    /\ kzgCalls = << >>
    /\ verifyResult = NoResult
    /\ libCall = NoCall
    /\ libRet = NoCall
    /\ libPrev = NoCall

(* ---------------------------- Proof::prove ---------------------------- *)
\* proof.rs:192-195: the only check made before the work begins
ProvePrecondition(nbytes_, nfisch_, difficulty_, mvalue_) == IsPowerOfTwo(nbytes_)

\* Proof::prove up to the fan-out of the iterations.  backendFails: the
\* backend makes open_all_fk20 return Err.
ProveStart(backendFails) ==
    /\ pc = "init"
    /\ IF ~ProvePrecondition(nbytes, nfisch, difficulty, mvalue)
       THEN /\ proveResult' = Panic
            /\ pc' = "done"
            /\ UNCHANGED <<com, openings, r_i, proverPrelude, fisch_iters, fk20>>
       ELSE IF backendFails \/ Fk20SettingsFail(2 * Len(chunks))
       THEN /\ fk20' = "err"
            /\ proveResult' = Err(<<"fk20">>)
            /\ pc' = "done"
            /\ UNCHANGED <<com, openings, r_i, proverPrelude, fisch_iters>>
       ELSE /\ fk20' = "ok"
            /\ LET opened == open_all_fk20(chunks)
               IN  /\ com' = opened.com
                   /\ openings' = opened.openings
            /\ \E seed \in RandSeeds :
                  r_i' = [i \in 1..nfisch |-> Rand(seed, i)]
            /\ proverPrelude' =
                  prelude(PublicKey, com',
                          [i \in 1..nfisch |-> G1Mul(G1Generator, r_i'[i])])
            /\ fisch_iters' = [i \in 1..nfisch |-> Pending]
            /\ pc' = "mining"
            /\ UNCHANGED proveResult
    /\ UNCHANGED <<inputs, mined, completion, proof, replaced, verifierVars>>
    /\ UNCHANGED libVars

\* one item of the parallel map of proof.rs:213-227
Worker(fisch_iter) ==
    /\ pc = "mining"
    /\ fisch_iter \in 0..(nfisch - 1)
    /\ fisch_iter \notin mined
    /\ \A j \in 1..nfisch : fisch_iters[j] # Panicked
    /\ mined' = mined \cup {fisch_iter}
    /\ completion' = Append(completion, fisch_iter)
    /\ fisch_iters' = CollectInto(fisch_iters, fisch_iter,
            FischIterProve(fisch_iter, proverPrelude, openings,
                           r_i[fisch_iter + 1], sk, chunks, difficulty, mvalue,
                           overflowChecks))
    /\ UNCHANGED <<inputs, pc, com, openings, r_i, proverPrelude, proveResult,
                   fk20, proof, replaced, verifierVars>>
    /\ UNCHANGED libVars

\* a faulty return, as the comment at proof.rs:180-183 words it: None
\* when no iteration found a solution
ProveOutcomeNoneOnFailure(buf) ==
    [kind |-> "Ok", some |-> \E j \in 1..Len(buf) : buf[j].tag = "BaseProof"]

\* what Proof::prove returns once the iterations are collected
ProveOutcome(buf) == [kind |-> "Ok", some |-> TRUE]

\* the end of Proof::prove: a panic of an iteration unwinds through the
\* collect, otherwise all iterations have been collected
ProveFinish ==
    /\ pc = "mining"
    /\ IF \E j \in 1..nfisch : fisch_iters[j] = Panicked
       THEN /\ proveResult' = Panic
            /\ pc' = "done"
            /\ UNCHANGED proof
       ELSE /\ mined = 0..(nfisch - 1)
            /\ proveResult' = ProveOutcome(fisch_iters)
            /\ proof' = fisch_iters
            /\ pc' = "proved"
    /\ completion' = << >>
    /\ UNCHANGED <<inputs, com, openings, r_i, proverPrelude, fisch_iters,
                   mined, fk20, replaced, verifierVars>>
    /\ UNCHANGED libVars

(* --------------------- between signing and verifying ------------------ *)
\* a faulty replacement: the slot is replaced by the commitment to nothing
ReplaceByIdentity(i) ==
    /\ pc = "proved"
    /\ i \in 0..(Len(proof) - 1)
    /\ proof[i + 1].tag = "BaseProof"
    /\ proof' = [proof EXCEPT ![i + 1] = Commitment(0)]
    /\ replaced' = replaced \cup {i}
    /\ UNCHANGED <<inputs, pc, proverVars, verifierVars>>
    /\ UNCHANGED libVars

\* proof.rs:500-505: a BaseProof slot is replaced by its Schnorr commitment
ReplaceByCommitment(i) ==
    /\ pc = "proved"
    /\ i \in 0..(Len(proof) - 1)
    /\ proof[i + 1].tag = "BaseProof"
    /\ proof' = [proof EXCEPT ![i + 1] = Commitment(FischIterA(proof[i + 1]))]
    /\ replaced' = replaced \cup {i}
    /\ UNCHANGED <<inputs, pc, proverVars, verifierVars>>
    /\ UNCHANGED libVars

(* --------------------------- Proof::verify ---------------------------- *)
VerifyCtx(errk) ==
    [difficulty |-> difficulty, checks |-> overflowChecks, data_len |-> Len(chunks),
     errk |-> errk, mvalue |-> mvalue]

\* Proof::verify up to the fan-out of the per-slot verifications
VerifyStart ==
    /\ pc \in {"proved", "recv"}
    /\ IF Len(proof) % 2 # 0
       THEN /\ verifyResult' = Panic
            /\ pc' = "done"
            /\ UNCHANGED <<verifierPrelude, verifications, kzgCalls>>
       ELSE /\ verifierPrelude' = ProofPrelude(proof, PublicKey, com)
            /\ verifications' = [i \in 1..Len(proof) |-> NotRun]
            /\ kzgCalls' = [i \in 1..Len(proof) |-> 0]
            /\ pc' = "verifying"
            /\ UNCHANGED verifyResult
    /\ UNCHANGED <<inputs, proverVars, proof, replaced>>
    /\ UNCHANGED libVars

BackendErrs(vs) == Cardinality({i \in 1..Len(vs) : vs[i].kind = "Err"})

\* one item of the parallel map of proof.rs:135-150; errk: the backend
\* fails the errk-th opening check of this slot (0: none)
VerifySlot(fisch_iter, errk) ==
    /\ pc = "verifying"
    /\ fisch_iter \in 0..(Len(proof) - 1)
    /\ verifications[fisch_iter + 1] = NotRun
    /\ errk # 0 => BackendErrs(verifications) < MaxBackendErrs
    /\ LET run == FischIterVerifyRun(proof[fisch_iter + 1], fisch_iter,
                                     verifierPrelude, PublicKey, com,
                                     VerifyCtx(errk))
       IN  /\ verifications' = [verifications EXCEPT ![fisch_iter + 1] = run.out]
           /\ kzgCalls' = [kzgCalls EXCEPT ![fisch_iter + 1] = run.calls]
    /\ UNCHANGED <<inputs, pc, proverVars, proof, replaced, verifierPrelude,
                   verifyResult>>
    /\ UNCHANGED libVars

Passed(vs) == Cardinality({i \in 1..Len(vs) : vs[i] = Ok(TRUE)})

\* a faulty acceptance rule: more than half of the slots must pass
ThresholdStrict(passed, total) == passed * 2 > total

\* the acceptance rule of proof.rs:165
Threshold(passed, total) == passed * 2 >= total

\* a faulty collect of the verifications: an Err slot counts as a failed one
VerifyOutcomesLenient(vs) ==
    IF \E i \in 1..Len(vs) : vs[i] = Panic THEN {Panic}
    ELSE {Ok(Threshold(Passed(vs), Len(vs)))}

\* the results Proof::verify can return from what the slots returned: a
\* panic of a slot unwinds, an Err of a slot is returned by the collect
VerifyOutcomes(vs) ==
    IF \E i \in 1..Len(vs) : vs[i] = Panic THEN {Panic}
    ELSE IF \E i \in 1..Len(vs) : vs[i].kind = "Err"
    THEN {vs[i] : i \in {j \in 1..Len(vs) : vs[j].kind = "Err"}}
    ELSE {Ok(Threshold(Passed(vs), Len(vs)))}

\* the end of Proof::verify.  The collect into a Result stops handing out
\* slots once one has returned Err, and a panic unwinds.
VerifyFinish ==
    /\ pc = "verifying"
    /\ \/ \A i \in 1..Len(proof) : verifications[i] # NotRun
       \/ \E i \in 1..Len(proof) : verifications[i].kind \in {"Err", "Panic"}
    /\ verifyResult' \in VerifyOutcomes(verifications)
    /\ pc' = "done"
    /\ UNCHANGED <<inputs, proverVars, proof, replaced, verifierPrelude,
                   verifications, kzgCalls>>
    /\ UNCHANGED libVars

Next ==
    \/ \E backendFails \in BOOLEAN : ProveStart(backendFails)
    \/ \E i \in 0..(MaxFisch - 1) : Worker(i)
    \/ ProveFinish
    \/ \E i \in 0..(MaxFisch - 1) : ReplaceByCommitment(i)
    \/ VerifyStart
    \/ \E i \in 0..(MaxFisch - 1), errk \in 0..2 : VerifySlot(i, errk)
    \/ VerifyFinish

\* signing, replacement of slots by their commitments, verification
Spec == Init /\ [][Next]_vars

(* ------------------------ signing to its end -------------------------- *)
NextProve ==
    \/ \E backendFails \in BOOLEAN : ProveStart(backendFails)
    \/ \E i \in 0..(MaxFisch - 1) : Worker(i)
    \/ ProveFinish

\* the step of a worker as it shows on `mined`: an item that was not run
\* is run (the guard of Worker, and what Worker does to mined)
WorkerRuns ==
    /\ pc = "mining"
    /\ \A j \in 1..nfisch : fisch_iters[j] # Panicked
    /\ \E fisch_iter \in (0..(nfisch - 1)) \ mined :
          mined' = mined \cup {fisch_iter}

\* Proof::prove alone.  The parallel map runs every item it was given and
\* the collect returns once all of them have ended (proof.rs:213-227), so a
\* worker that can run does run, and so does the end of the call.
SpecProve ==
    /\ Init
    /\ [][NextProve]_vars
    /\ WF_mined(WorkerRuns)
    /\ WF_vars(ProveFinish)

(* -------------- a proof that did not come from Proof::prove ----------- *)
\* the verifier's difficulties and the byte lengths of the committed data
VDifficulties == {1, 2, 33}
VDataLens == {64, 128}

\* the ways a BaseProof built as in proof.rs:555-577 can be made ill-formed
Defects == {"badz", "baddata", "badopening", "empty", "short", "mismatch"}

Front(seq) == SubSeq(seq, 1, Len(seq) - 1)

Damage(bp, defect) ==
    CASE defect = "badz" ->
            [bp EXCEPT !.schnorr.z = FrAdd(bp.schnorr.z, 1)]
      [] defect = "baddata" ->
            [bp EXCEPT !.data[1] = FrAdd(bp.data[1], 1)]
      [] defect = "badopening" ->
            [bp EXCEPT !.openings[1] = G1Add(bp.openings[1], G1Generator)]
      [] defect = "empty" ->
            [bp EXCEPT !.data = << >>, !.openings = << >>]
      [] defect = "short" ->
            [bp EXCEPT !.data = Front(bp.data), !.openings = Front(bp.openings)]
      [] defect = "mismatch" ->
            [bp EXCEPT !.openings = Front(bp.openings)]

\* the slots a holder of sk and the data can put at index fisch_iter
SlotChoices(fisch_iter) ==
    LET r == Rand(1, fisch_iter + 1)
        built(c) == Candidate(fisch_iter, openings, r, sk, chunks, mvalue, c)
    IN  {Commitment(G1Mul(G1Generator, r))}
        \cup {built(c) : c \in 0..MaxForgeC}
        \cup {Damage(built(0), defect) : defect \in Defects}

InitV ==
    /\ overflowChecks \in BOOLEAN
    /\ sk \in SecretKeys
    /\ nbytes \in VDataLens
    /\ chunks = Chunks(nbytes)
    /\ nfisch = 0
    /\ difficulty \in VDifficulties
    /\ mvalue = 2
    /\ pc = "recv"
    /\ com = open_all_fk20(chunks).com
    /\ openings = open_all_fk20(chunks).openings
    /\ r_i = << >>
    /\ proverPrelude = HashOutputDefault
    /\ fisch_iters = << >>
    /\ mined = {}
    /\ completion = << >>
    /\ proveResult = NoResult
    /\ fk20 = "none"
    /\ proof = << >>
    /\ replaced = {}
    /\ verifierPrelude = HashOutputDefault
    /\ verifications = << >>
    /\ kzgCalls = << >>
    /\ verifyResult = NoResult
    /\ libCall = NoCall
    /\ libRet = NoCall
    /\ libPrev = NoCall

\* the proof handed to the verifier grows by one slot
ReceiveSlot ==
    /\ pc = "recv"
    /\ Len(proof) < MaxSlots
    /\ \E fi \in SlotChoices(Len(proof)) : proof' = Append(proof, fi)
    /\ UNCHANGED <<inputs, pc, proverVars, replaced, verifierVars>>
    /\ UNCHANGED libVars

NextV ==
    \/ ReceiveSlot
    \/ VerifyStart
    \/ \E i \in 0..(MaxSlots - 1), errk \in 0..2 : VerifySlot(i, errk)
    \/ VerifyFinish

\* verification of a proof of any shape
SpecVerify == InitV /\ [][NextV]_vars

(* ------------------ the functions called on their own ------------------ *)
\* a function is called once
LibCall(call, ret) ==
    /\ pc = "lib"
    /\ libCall = NoCall
    /\ libCall' = call
    /\ libRet' = ret
    /\ libPrev' = NoCall
    /\ UNCHANGED <<inputs, pc, proverVars, proof, replaced, verifierVars>>

\* a function is called, and then called a second time
LibCallTwice(call, ret) ==
    /\ pc = "lib"
    /\ \/ /\ libCall = NoCall
          /\ libPrev' = NoCall
       \/ /\ libCall # NoCall
          /\ libCall.fn = call.fn
          /\ libPrev = NoCall
          /\ libPrev' = [fn |-> libCall.fn, call |-> libCall, ret |-> libRet]
    /\ libCall' = call
    /\ libRet' = ret
    /\ UNCHANGED <<inputs, pc, proverVars, proof, replaced, verifierVars>>

\* challenges around the field order and the widths of an integer encoding;
\* u32::MAX is beyond the integers of the model checker
SchnorrChallenges == {0, 1, 2, 16, 17, 18, 250, 251, 65535, 65536, 2147483647}

\* schnorr.rs:43-53: Schnorr::prove(sk, r, c), then verify against sk * G
SchnorrCall(sk_, r, c) ==
    LibCall([c |-> c, sk |-> sk_, r |-> r, fn |-> "Schnorr::prove"],
            LET s == SchnorrProve(sk_, r, c)
            IN  [schnorr |-> s,
                 verified |-> SchnorrVerify(s, G1Mul(G1Generator, sk_))])

(* ---------- bincode, standard configuration (util.rs:31-44) ----------- *)
\* Decoders take the bytes and a 1-based position and return the value and
\* the position after it.
RECURSIVE Concat(_)
Concat(ss) == IF ss = << >> THEN << >> ELSE Head(ss) \o Concat(Tail(ss))

\* an unsigned integer: one byte below 251, else a marker and 2 or 4
\* little-endian bytes
EncodeVarint(n) ==
    IF n < 251 THEN <<n>>
    ELSE IF n < 65536 THEN <<251, n % 256, n \div 256>>
    ELSE <<252, n % 256, (n \div 256) % 256, (n \div 65536) % 256,
           n \div 16777216>>

DecodeVarint(b, p) ==
    IF b[p] < 251 THEN [val |-> b[p], next |-> p + 1]
    ELSE IF b[p] = 251
    THEN [val |-> b[p + 1] + 256 * b[p + 2], next |-> p + 3]
    ELSE [val |-> b[p + 1] + 256 * b[p + 2] + 65536 * b[p + 3]
                    + 16777216 * b[p + 4],
          next |-> p + 5]

\* a scalar written most significant digit first
EncodeFrBigEndian(x) == <<x \div 16, x % 16>>

\* a scalar: fixed width, little-endian (two base-16 digits in the model)
EncodeFr(x) == <<x % 16, x \div 16>>
DecodeFr(b, p) == [val |-> b[p] + 16 * b[p + 1], next |-> p + 2]

\* a compressed G1 point: fixed width, big-endian, the first byte carrying
\* the compression flag (128) and, for the identity, the infinity flag (64)
EncodeG1(x) == IF x = 0 THEN <<192, 0>> ELSE <<128 + (x \div 16), x % 16>>
DecodeG1(b, p) ==
    [val |-> IF b[p] >= 192 THEN 0 ELSE (b[p] - 128) * 16 + b[p + 1],
     next |-> p + 2]

EncodeFrVec(v) ==
    EncodeVarint(Len(v)) \o Concat([k \in 1..Len(v) |-> EncodeFr(v[k])])
DecodeFrVec(b, p) ==
    LET n == DecodeVarint(b, p)
    IN  [val |-> [k \in 1..n.val |-> DecodeFr(b, n.next + 2 * (k - 1)).val],
         next |-> n.next + 2 * n.val]

EncodeG1Vec(v) ==
    EncodeVarint(Len(v)) \o Concat([k \in 1..Len(v) |-> EncodeG1(v[k])])
DecodeG1Vec(b, p) ==
    LET n == DecodeVarint(b, p)
    IN  [val |-> [k \in 1..n.val |-> DecodeG1(b, n.next + 2 * (k - 1)).val],
         next |-> n.next + 2 * n.val]

\* struct Schnorr { a, c, z }
EncodeSchnorr(x) == EncodeG1(x.a) \o EncodeVarint(x.c) \o EncodeFr(x.z)
DecodeSchnorr(b, p) ==
    LET a == DecodeG1(b, p)
        c == DecodeVarint(b, a.next)
        z == DecodeFr(b, c.next)
    IN  [val |-> [a |-> a.val, c |-> c.val, z |-> z.val], next |-> z.next]

\* struct BaseProof { schnorr, data, openings }
EncodeBaseProof(bp) ==
    EncodeSchnorr(bp.schnorr) \o EncodeFrVec(bp.data) \o EncodeG1Vec(bp.openings)
DecodeBaseProof(b, p) ==
    LET sch == DecodeSchnorr(b, p)
        dat == DecodeFrVec(b, sch.next)
        ops == DecodeG1Vec(b, dat.next)
    IN  [val |-> BaseProof(sch.val, dat.val, ops.val), next |-> ops.next]

\* enum FischIter: the index of the variant, then its content
EncodeFischIter(fi) ==
    IF fi.tag = "Commitment" THEN EncodeVarint(0) \o EncodeG1(fi.com)
    ELSE EncodeVarint(1) \o EncodeBaseProof(fi)
DecodeFischIter(b, p) ==
    LET variant == DecodeVarint(b, p)
    IN  IF variant.val = 0
        THEN LET g == DecodeG1(b, variant.next)
             IN  [val |-> Commitment(g.val), next |-> g.next]
        ELSE DecodeBaseProof(b, variant.next)

\* n FischIters from position p on
RECURSIVE DecodeFischIters(_, _, _)
DecodeFischIters(b, p, n) ==
    IF n = 0 THEN [val |-> << >>, next |-> p]
    ELSE LET first == DecodeFischIter(b, p)
             rest == DecodeFischIters(b, first.next, n - 1)
         IN  [val |-> <<first.val>> \o rest.val, next |-> rest.next]

\* struct Proof { fisch_iters }
EncodeProof(fis) ==
    EncodeVarint(Len(fis)) \o Concat([k \in 1..Len(fis) |-> EncodeFischIter(fis[k])])
DecodeProof(b, p) ==
    LET n == DecodeVarint(b, p)
    IN  DecodeFischIters(b, n.next, n.val)

\* encode_to_vec / decode_from_slice by the type of the object
Encode(type, x) ==
    CASE type = "Schnorr" -> EncodeSchnorr(x)
      [] type = "BaseProof" -> EncodeBaseProof(x)
      [] type = "FischIter" -> EncodeFischIter(x)
      [] type = "Proof" -> EncodeProof(x)
Decode(type, b) ==
    CASE type = "Schnorr" -> DecodeSchnorr(b, 1).val
      [] type = "BaseProof" -> DecodeBaseProof(b, 1).val
      [] type = "FischIter" -> DecodeFischIter(b, 1).val
      [] type = "Proof" -> DecodeProof(b, 1).val

\* the persisted objects that are encoded: hand-made ones as in proof.rs:437-454
\* and ones mined from the data SerData under the key SerSk
SerData == Chunks(64)
SerSk == 3
SerCom == open_all_fk20(SerData).com
SerCtx == [difficulty |-> 1, checks |-> FALSE, data_len |-> Len(SerData),
           errk |-> 0, mvalue |-> 2]

PersistedSchnorrs ==
    {[a |-> a, c |-> c, z |-> z] :
        a \in {0, 1, 16}, c \in {0, 250, 251, 65535, 65536, 2147483647},
        z \in {0, 16}}
PersistedBaseProofs ==
    {BaseProof(x, d, o) :
        x \in {y \in PersistedSchnorrs : y.a = 1 /\ y.z = 16},
        d \in {<< >>, <<4>>, <<16, 0>>}, o \in {<< >>, <<0>>, <<7, 16>>}}
    \cup {Candidate(i, open_all_fk20(SerData).openings, Rand(1, i + 1), SerSk,
                    SerData, 2, c) : i \in 0..1, c \in 0..2}
PersistedFischIters ==
    {Commitment(g) : g \in {0, 1, 16}} \cup PersistedBaseProofs
PersistedProofs ==
    {<< >>} \cup {<<x>> : x \in PersistedFischIters}
    \cup {<<x, y>> : x \in PersistedFischIters,
                     y \in {z \in PersistedFischIters :
                              z.tag = "Commitment" \/ Len(z.data) = 2}}
\* what Proof::verify returns on fisch_iters_ for SerData, when the backend
\* raises no error
SerVerdict(fisch_iters_) ==
    IF Len(fisch_iters_) % 2 # 0 THEN {Panic}
    ELSE LET pre == ProofPrelude(fisch_iters_, G1Mul(G1Generator, SerSk), SerCom)
         IN  VerifyOutcomes([i \in 1..Len(fisch_iters_) |->
                 FischIterVerify(fisch_iters_[i], i - 1, pre,
                                 G1Mul(G1Generator, SerSk), SerCom, SerCtx)])

\* proof.rs:437-454: an object is encoded and the bytes are decoded
EncodeCall(type, x) ==
    LibCall([val |-> x, fn |-> "encode", type |-> type],
            LET bytes == Encode(type, x)
                back == Decode(type, bytes)
            IN  [bytes |-> bytes,
                 decoded |-> back,
                 verdicts |-> IF type = "Proof"
                              THEN <<SerVerdict(x), SerVerdict(back)>>
                              ELSE << >>])

(* ------------------- open_all_fk20 called on its own ------------------ *)
OpenAllData ==
    {<<x>> : x \in 0..(Q - 1)}
    \cup {<<x, y>> : x, y \in {0, 1, 5, 16}}
    \cup {<<2, 7, 11>>}
    \cup {<<x, y, z, 7>> : x, y, z \in {0, 3, 11, 16}}

\* commitment.rs:60-81 and, on the same data, the helper of commitment.rs:94
OpenAllCall(data) ==
    LibCall([data |-> data, fn |-> "open_all_fk20"],
            IF Fk20SettingsFail(2 * Len(data))
            THEN [kind |-> "Err"]
            ELSE [com |-> open_all_fk20(data).com,
                  outputs |-> data_availability_optimized(data),
                  openings |-> open_all_fk20(data).openings,
                  kind |-> "Ok",
                  naive |-> open_all(data)])

(* ------------------ BaseProof::prove called on its own ----------------- *)
ProveData == {Chunks(64), Chunks(128)}
ProveNonces == {1, 5}
ProveDifficulties == {1, 3}
ProveMValues == {1, 2}
ProveSk == 3
\* the openings of the data, and the same shifted by the generator
ProveOpenings(dat) ==
    LET opened == open_all_fk20(dat).openings
    IN  {opened, [k \in 1..Len(opened) |-> G1Add(opened[k], G1Generator)]}
\* the data with each of its lists of openings
ProveOpened ==
    UNION {{<<dat, opns>> : opns \in ProveOpenings(dat)} : dat \in ProveData}
\* the preludes of two proofs of the same signer
ProvePreludes ==
    {prelude(G1Mul(G1Generator, ProveSk), commit_to_poly(dat), <<1, 5>>) :
        dat \in ProveData}

\* proof.rs:289-327, in a build without overflow checks
BaseProveCall(fisch_iter, pre, opns, r, sk_, dat, difficulty_, mvalue_) ==
    LibCallTwice([sk |-> sk_, r |-> r, difficulty |-> difficulty_,
                  prelude |-> pre, fisch_iter |-> fisch_iter, data |-> dat,
                  openings |-> opns, fn |-> "BaseProof::prove",
                  mvalue |-> mvalue_],
                 [result |-> BaseProofProve(fisch_iter, pre, opns, r, sk_, dat,
                                            difficulty_, mvalue_, FALSE)])

(* ------------------ derive_indices called on its own ------------------- *)
DeriveCounts == {0, 2, 32, 33}
DeriveDataLens == {0, 1, 10, 65535, 65536}

\* hashing.rs:25-58
DeriveCall(i, c, num_indices, data_len) ==
    LibCallTwice([c |-> c, num_indices |-> num_indices, data_len |-> data_len,
                  i |-> i, fn |-> "derive_indices"],
                 IF DeriveIndicesPanics(num_indices, data_len)
                 THEN [kind |-> "Panic"]
                 ELSE [kind |-> "Ok",
                       indices |-> derive_indices(i, c, num_indices, data_len)])

InitLib ==
    /\ overflowChecks = FALSE
    /\ sk = 0
    /\ nbytes = 0
    /\ chunks = << >>
    /\ nfisch = 0
    /\ difficulty = 0
    /\ mvalue = 0
    /\ pc = "lib"
    /\ com = 0
    /\ openings = << >>
    /\ r_i = << >>
    /\ proverPrelude = HashOutputDefault
    /\ fisch_iters = << >>
    /\ mined = {}
    /\ completion = << >>
    /\ proveResult = NoResult
    /\ fk20 = "none"
    /\ proof = << >>
    /\ replaced = {}
    /\ verifierPrelude = HashOutputDefault
    /\ verifications = << >>
    /\ kzgCalls = << >>
    /\ verifyResult = NoResult
    /\ libCall = NoCall
    /\ libRet = NoCall
    /\ libPrev = NoCall

NextLib ==
    \/ \E sk_, r \in 0..(Q - 1), c \in SchnorrChallenges : SchnorrCall(sk_, r, c)
    \/ \E x \in PersistedSchnorrs : EncodeCall("Schnorr", x)
    \/ \E x \in PersistedBaseProofs : EncodeCall("BaseProof", x)
    \/ \E x \in PersistedFischIters : EncodeCall("FischIter", x)
    \/ \E x \in PersistedProofs : EncodeCall("Proof", x)
    \/ \E data \in OpenAllData : OpenAllCall(data)
    \/ \E fisch_iter \in 0..1, pre \in ProvePreludes, opened \in ProveOpened,
          r \in ProveNonces, difficulty_ \in ProveDifficulties,
          mvalue_ \in ProveMValues :
            BaseProveCall(fisch_iter, pre, opened[2], r, ProveSk, opened[1],
                          difficulty_, mvalue_)
    \/ \E i \in 0..1, c \in 0..2, num_indices \in DeriveCounts,
          data_len \in DeriveDataLens : DeriveCall(i, c, num_indices, data_len)

\* the functions of the library called on their own
SpecLib == InitLib /\ [][NextLib]_vars

(* ------------- the numerical helpers called on their own --------------- *)
\* the difficulties maxc is called with (a result of 2^31 lies beyond the
\* integers of the model, so 31 and 63 are left out)
MaxcDifficulties == {0, 1, 5, 16, 30, 32, 33, 62, 64}

\* schnorr.rs:34-36, in the build the state names
MaxcCall(difficulty_) ==
    LibCall([difficulty |-> difficulty_, fn |-> "maxc"],
            IF MaxcPanics(difficulty_, overflowChecks) THEN Panic
            ELSE Ok(maxc(difficulty_)))

\* hashes by their first u64 word: lanes below `lane` are zero, lane `lane`
\* is v, the lanes above it are fill (lane 5 on is outside the first word)
PowHashes ==
    {[l \in 1..Lanes |-> IF l < lane THEN 0 ELSE IF l = lane THEN v ELSE fill] :
        lane \in 1..5, v \in {1, 2, 8, 32768, 40960, 65535}, fill \in {0, 65535}}
    \cup {HashOutputDefault}
PowDifficulties == {0, 1, 3, 4, 15, 16, 17, 31, 32, 33, 47, 48, 49, 63, 64, 65}

\* hashing.rs:97-101
PowPassCall(hash_output, difficulty_) ==
    LibCall([difficulty |-> difficulty_, hash_output |-> hash_output,
             fn |-> "pow_pass"],
            IF PowPassPanics(difficulty_) THEN Panic
            ELSE Ok(pow_pass(hash_output, difficulty_)))

\* arrays of Lanes u16 values
XorArrays ==
    {HashOutputDefault, [l \in 1..Lanes |-> 65535], [l \in 1..Lanes |-> l],
     [l \in 1..Lanes |-> 4096 * (l % 16) + 257], Squeeze(1), Squeeze(2),
     Squeeze(2038)}

\* util.rs:9-19: bitxor(x, y), and bitxor of the result with y
BitxorCall(x, y) ==
    LibCall([x |-> x, y |-> y, fn |-> "bitxor"],
            [back |-> bitxor(bitxor(x, y), y), xored |-> bitxor(x, y)])

\* the transcripts and keys Schnorr::verify is called with.  A challenge is
\* a u32, far below the order of the scalar field, so two different
\* challenges are two different scalars: they are drawn from 0..Q-1.
VerifyPoints == {0, 1, 7, 16}
VerifyChallenges == {0, 1, 2, 16}

\* schnorr.rs:18-22 on the transcript (a, c, z) under pk, and on every
\* transcript that differs from it in z, in c or in a alone
SchnorrVerifyCall(pk, a, c, z) ==
    LibCall([a |-> a, c |-> c, pk |-> pk, z |-> z, fn |-> "Schnorr::verify"],
            [verified |-> SchnorrVerify([a |-> a, c |-> c, z |-> z], pk),
             responses |-> {z2 \in 0..(Q - 1) :
                              SchnorrVerify([a |-> a, c |-> c, z |-> z2], pk)},
             challenges |-> {c2 \in 0..(Q - 1) :
                               SchnorrVerify([a |-> a, c |-> c2, z |-> z], pk)},
             commitments |-> {a2 \in 0..(Q - 1) :
                                SchnorrVerify([a |-> a2, c |-> c, z |-> z], pk)}])

InitNum ==
    /\ overflowChecks \in BOOLEAN
    /\ sk = 0
    /\ nbytes = 0
    /\ chunks = << >>
    /\ nfisch = 0
    /\ difficulty = 0
    /\ mvalue = 0
    /\ pc = "lib"
    /\ com = 0
    /\ openings = << >>
    /\ r_i = << >>
    /\ proverPrelude = HashOutputDefault
    /\ fisch_iters = << >>
    /\ mined = {}
    /\ completion = << >>
    /\ proveResult = NoResult
    /\ fk20 = "none"
    /\ proof = << >>
    /\ replaced = {}
    /\ verifierPrelude = HashOutputDefault
    /\ verifications = << >>
    /\ kzgCalls = << >>
    /\ verifyResult = NoResult
    /\ libCall = NoCall
    /\ libRet = NoCall
    /\ libPrev = NoCall

NextNum ==
    \/ \E difficulty_ \in MaxcDifficulties : MaxcCall(difficulty_)
    \/ \E hash_output \in PowHashes, difficulty_ \in PowDifficulties :
          PowPassCall(hash_output, difficulty_)
    \/ \E x, y \in XorArrays : BitxorCall(x, y)
    \/ \E pk \in VerifyPoints, a \in VerifyPoints, c \in VerifyChallenges,
          z \in 0..(Q - 1) :
          SchnorrVerifyCall(pk, a, c, z)

\* maxc, pow_pass, bitxor and Schnorr::verify called on their own
SpecNum == InitNum /\ [][NextNum]_vars

(* ------------------------------ properties ---------------------------- *)
\* Proof::verify has returned or panicked
VerifyEnded == verifyResult # NoResult

\* no call of check_proof_single returned Err during the verification
NoBackendError == \A i \in 1..Len(verifications) : verifications[i].kind # "Err"

\* slot i (0-based) of fisch_iters_ is a BaseProof for which BaseProof::verify
\* returns Ok(true) at index i under the prelude of fisch_iters_
ValidSlot(fisch_iters_, i) ==
    FischIterVerify(fisch_iters_[i + 1], i,
                    ProofPrelude(fisch_iters_, PublicKey, com), PublicKey, com,
                    VerifyCtx(0)) = Ok(TRUE)

ValidSlots(fisch_iters_) ==
    Cardinality({i \in 0..(Len(fisch_iters_) - 1) : ValidSlot(fisch_iters_, i)})

\* the inputs of Proof::prove the specification calls valid
ValidInput ==
    /\ IsPowerOfTwo(nbytes)
    /\ nbytes % CHUNK_SIZE = 0
    /\ nfisch % 2 = 0
    /\ difficulty <= 64
    /\ mvalue <= 32

\* C1: for every proof with an even number T of slots, when the backend
\* raises no error, Proof::verify returns Ok(true) if and only if the number
\* of valid slots times two is at least T.
C1_ThresholdRule ==
    (VerifyEnded /\ Len(proof) % 2 = 0 /\ NoBackendError)
        => (verifyResult = Ok(TRUE) <=> ValidSlots(proof) * 2 >= Len(proof))

\* C3: BaseProof::verify does not return true for a BaseProof whose
\* challenge c is at least maxc(difficulty).
C3_ChallengeBoundExclusive ==
    \A i \in 1..Len(verifications) :
        (/\ proof[i].tag = "BaseProof"
         /\ proof[i].schnorr.c >= maxc(difficulty))
            => verifications[i] # Ok(TRUE)

\* C4: for every valid input, the proof Proof::prove returned verifies:
\* Proof::verify on it, with the same parameters and no backend error,
\* returns Ok(true).
C4_ProvedProofVerifies ==
    (/\ ValidInput
     /\ proveResult.kind = "Ok"
     /\ replaced = {}
     /\ VerifyEnded
     /\ NoBackendError)
        => verifyResult = Ok(TRUE)

\* C6: Proof::verify never panics, whatever the number of slots, the lengths
\* of the vectors of a slot and the challenge of a slot.
C6_VerifyNeverPanics == verifyResult # Panic

\* C9: Proof::prove rejects an invalid input (a length that is not a power
\* of two or not a multiple of 32, m > 32, difficulty > 64, odd nfisch)
\* before doing any work.
C9_InvalidInputRejectedFirst ==
    (~ValidInput /\ pc # "init")
        => (proveResult.kind \in {"Panic", "Err"} /\ fk20 = "none")

\* C2: starting from the proof Proof::prove returned, with an even number T
\* of slots, after any replacements of BaseProof slots by Commitment(a_i),
\* Proof::verify (no backend error) returns Ok(true) as long as at least T/2
\* of the prover's valid slots remain, and Ok(false) once fewer remain.
C2_ReplacementTolerance ==
    (/\ proveResult.kind = "Ok"
     /\ Len(proof) % 2 = 0
     /\ VerifyEnded
     /\ NoBackendError)
        => verifyResult =
             Ok((ValidSlots(fisch_iters) - Cardinality(replaced)) * 2 >= Len(proof))

\* a proof of four slots with exactly two valid slots left after a
\* replacement is accepted
C2_Witness ==
    /\ proveResult.kind = "Ok"
    /\ Len(proof) = 4
    /\ replaced # {}
    /\ ValidSlots(fisch_iters) - Cardinality(replaced) = 2
    /\ ValidSlots(proof) = 2
    /\ verifyResult = Ok(TRUE)

\* C5: every BaseProof that BaseProof::prove returned is accepted by
\* BaseProof::verify under the same index, prelude, public key, commitment,
\* data length, difficulty and m, when the backend raises no error.
C5_MinedBaseProofVerifies ==
    pc \in {"mining", "proved"} =>
        \A i \in mined :
            fisch_iters[i + 1].tag = "BaseProof"
                => BaseProofVerify(fisch_iters[i + 1], i, proverPrelude,
                                   PublicKey, com, VerifyCtx(0)) = Ok(TRUE)

\* an iteration found its solution at a challenge other than the first, with
\* openings taken at two different indices
C5_Witness ==
    \E i \in mined :
        /\ fisch_iters[i + 1].tag = "BaseProof"
        /\ fisch_iters[i + 1].schnorr.c > 0
        /\ sk # 0
        /\ Len(chunks) > 1
        /\ fisch_iters[i + 1].data[1] # fisch_iters[i + 1].data[2]

\* C7: slot i of the output of Proof::prove is the result of iteration i,
\* made with the nonce r_i, in whatever order the iterations finish.
C7_SlotIsItsIteration ==
    pc \in {"mining", "proved"} =>
        \A i \in mined :
            /\ fisch_iters[i + 1] =
                  FischIterProve(i, proverPrelude, openings, r_i[i + 1], sk,
                                 chunks, difficulty, mvalue, overflowChecks)
            /\ fisch_iters[i + 1] # Panicked
                  => FischIterA(fisch_iters[i + 1]) = G1Mul(G1Generator, r_i[i + 1])

\* all iterations have finished, a later one before an earlier one, and the
\* slots differ
C7_Witness ==
    /\ pc = "mining"
    /\ nfisch >= 3
    /\ mined = 0..(nfisch - 1)
    /\ completion[1] > completion[2]
    /\ \E i, j \in 1..nfisch : fisch_iters[i].tag = "BaseProof"
                                /\ fisch_iters[j].tag = "Commitment"

C11_SchnorrCompleteness ==
    libCall.fn = "Schnorr::prove" =>
        /\ libRet.schnorr.a = (libCall.r * G1Generator) % Q
        /\ libRet.schnorr.c = libCall.c
        /\ libRet.schnorr.z = (libCall.r + (libCall.c % Q) * libCall.sk) % Q
        /\ libRet.verified

\* a challenge above the field order, with a secret key and a nonce that
\* are not zero
C11_Witness ==
    /\ libCall.fn = "Schnorr::prove"
    /\ libCall.c = 65536
    /\ libCall.sk = 5
    /\ libCall.r = 7
    /\ libRet.schnorr.z = (7 + (65536 % Q) * 5) % Q
    /\ libRet.verified

\* C12: for every proof Proof::prove returned, the prelude the verifier
\* recomputes from pk, com and FischIter::a() of the slots in order equals
\* the prelude the prover mined with, whether a slot is a BaseProof or a
\* Commitment: in both cases a() is r_i * G.
C12_PreludeRecomputable ==
    proveResult.kind = "Ok" =>
        /\ \A j \in 1..nfisch :
              FischIterA(fisch_iters[j]) = G1Mul(G1Generator, r_i[j])
        /\ ProofPrelude(fisch_iters, PublicKey, com) = proverPrelude
        /\ pc = "verifying" => verifierPrelude = proverPrelude

\* the verifier has recomputed the prelude of a proof that holds a BaseProof
\* slot and a Commitment slot
C12_Witness ==
    /\ proveResult.kind = "Ok"
    /\ pc = "verifying"
    /\ replaced = {}
    /\ \E i, j \in 1..Len(proof) : /\ proof[i].tag = "BaseProof"
                                   /\ proof[j].tag = "Commitment"
    /\ verifierPrelude = proverPrelude
    /\ verifierPrelude # HashOutputDefault

\* C13: encoding and then decoding a persisted object (Schnorr, BaseProof,
\* FischIter, Proof) yields a value equal to the original, and the decoded
\* proof verifies exactly when the original does.
C13_SerializationRoundTrip ==
    libCall.fn = "encode" =>
        /\ libRet.decoded = libCall.val
        /\ libCall.type = "Proof" => libRet.verdicts[1] = libRet.verdicts[2]

\* a proof of two mined slots, one of them with a challenge that is not
\* zero, went through the encoding and verifies as before
C13_Witness ==
    /\ libCall.fn = "encode"
    /\ libCall.type = "Proof"
    /\ Len(libCall.val) = 2
    /\ libCall.val[1].tag = "BaseProof" /\ Len(libCall.val[1].data) = 2
    /\ libCall.val[2].tag = "BaseProof" /\ Len(libCall.val[2].data) = 2
    /\ libCall.val[2].schnorr.c > 0
    /\ libRet.verdicts = <<{Ok(TRUE)}, {Ok(TRUE)}>>
    /\ Len(libRet.bytes) > 2 * Len(libCall.val)
    /\ libRet.decoded = libCall.val

\* C14: for data of length N, open_all_fk20 returns exactly N openings,
\* opening i being the FK20 output of index 2i, and the list equals the one
\* compute_proof_single gives at get_point(fs, N, i) for i = 0..N-1.
C14_OpenAllMatchesNaive ==
    (libCall.fn = "open_all_fk20" /\ libRet.kind = "Ok") =>
        /\ Len(libRet.openings) = Len(libCall.data)
        /\ \A i \in 0..(Len(libCall.data) - 1) :
               libRet.openings[i + 1] = libRet.outputs[2 * i + 1]
        /\ libRet.openings = libRet.naive

\* four data points whose openings are not all the same were opened
C14_Witness ==
    /\ libCall.fn = "open_all_fk20"
    /\ libRet.kind = "Ok"
    /\ Len(libCall.data) = 4
    /\ Len(libRet.outputs) = 8
    /\ Cardinality({libRet.outputs[j] : j \in 1..8}) > 2
    /\ libRet.openings = libRet.naive

\* C15: BaseProof::verify returns true only if a KZG check was performed
\* and passed for every position k in 0..m; a BaseProof carrying fewer than
\* m data/openings entries is never accepted.
C15_AllOpeningsChecked ==
    \A i \in 1..Len(verifications) :
        (proof[i].tag = "BaseProof" /\ verifications[i] = Ok(TRUE))
            => /\ Len(proof[i].data) >= mvalue
               /\ Len(proof[i].openings) >= mvalue
               /\ kzgCalls[i] = mvalue

\* the challenges of [0, maxc(difficulty)) whose candidate passes pow_pass,
\* for the arguments of a call of BaseProof::prove
PassingChallenges(call) ==
    {c \in 0..(maxc(call.difficulty) - 1) :
        LET bp == Candidate(call.fisch_iter, call.openings, call.r, call.sk,
                            call.data, call.mvalue, c)
        IN  pow_pass(PowHash(call.prelude, bp.schnorr, call.fisch_iter,
                             bp.data, bp.openings, 1, HashOutputDefault),
                     call.difficulty)}

\* C16: BaseProof::prove returns the proof for the smallest c in
\* [0, maxc(difficulty)) whose XOR-ed hash passes pow_pass, and it returns
\* None if and only if no c in that range passes.
C16_SmallestPassingChallenge ==
    libCall.fn = "BaseProof::prove" =>
        LET passing == PassingChallenges(libCall)
        IN  /\ libRet.result.tag = "None" <=> passing = {}
            /\ passing # {} =>
                  /\ libRet.result.tag = "BaseProof"
                  /\ libRet.result.schnorr.c \in passing
                  /\ \A c \in passing : libRet.result.schnorr.c <= c

\* a call returned a proof whose challenge is not zero although a larger
\* challenge passes too, and a call returned None
C16_Witness ==
    /\ libCall.fn = "BaseProof::prove"
    /\ libRet.result.tag = "BaseProof"
    /\ libRet.result.schnorr.c > 0
    /\ \E c \in PassingChallenges(libCall) : c > libRet.result.schnorr.c
    /\ libPrev # NoCall
    /\ libPrev.ret.result.tag = "None"

\* C18: every BaseProof returned by BaseProof::prove has
\* schnorr = Schnorr::prove(sk, r, c) with c < maxc(difficulty), exactly m
\* data entries and m openings, and for each k its data[k] and openings[k]
\* are the input data and opening at index derive_indices(fisch_iter, c, m, N)[k].
C18_ReturnedProofShape ==
    (libCall.fn = "BaseProof::prove" /\ libRet.result.tag = "BaseProof") =>
        LET bp == libRet.result
            c == bp.schnorr.c
            indices == derive_indices(libCall.fisch_iter, c, libCall.mvalue,
                                      Len(libCall.data))
        IN  /\ bp.schnorr = SchnorrProve(libCall.sk, libCall.r, c)
            /\ c < maxc(libCall.difficulty)
            /\ Len(bp.data) = libCall.mvalue
            /\ Len(bp.openings) = libCall.mvalue
            /\ \A k \in 1..libCall.mvalue :
                  /\ bp.data[k] = libCall.data[indices[k] + 1]
                  /\ bp.openings[k] = libCall.openings[indices[k] + 1]

\* a proof of two entries taken at two different indices of four chunks,
\* with the largest challenge of the range, was returned
C18_Witness ==
    /\ libCall.fn = "BaseProof::prove"
    /\ libRet.result.tag = "BaseProof"
    /\ libCall.mvalue = 2
    /\ Len(libCall.data) = 4
    /\ libRet.result.schnorr.c > 1
    /\ LET indices == derive_indices(libCall.fisch_iter, libRet.result.schnorr.c,
                                     2, 4)
       IN  indices[1] # indices[2]
    /\ libRet.result.data[1] # libRet.result.data[2]

C20_DeriveIndicesContract ==
    (libCall.fn = "derive_indices" /\ libRet.kind = "Ok") =>
        /\ Len(libRet.indices) = libCall.num_indices
        /\ \A k \in 1..Len(libRet.indices) :
              libRet.indices[k] >= 0 /\ libRet.indices[k] < libCall.data_len
        /\ (libPrev # NoCall /\ libPrev.call = libCall) => libPrev.ret = libRet

\* 32 indices, not all equal, were derived twice for the same arguments
C20_Witness ==
    /\ libCall.fn = "derive_indices"
    /\ libRet.kind = "Ok"
    /\ libCall.num_indices = 32
    /\ libCall.data_len = 10
    /\ Cardinality({libRet.indices[k] : k \in 1..32}) > 3
    /\ libPrev # NoCall
    /\ libPrev.call = libCall
    /\ libPrev.ret = libRet

\* the challenges of [0, maxc(difficulty)) that pass for iteration fisch_iter
\* of the running Proof::prove
PassingOfIteration(fisch_iter) ==
    PassingChallenges([sk |-> sk, r |-> r_i[fisch_iter + 1],
                       difficulty |-> difficulty, prelude |-> proverPrelude,
                       fisch_iter |-> fisch_iter, data |-> chunks, openings |-> openings,
                       mvalue |-> mvalue])

\* slot fisch_iter holds what a search bounded by maxc(difficulty) ends
\* with: the commitment r_i * G when no challenge passes, else a BaseProof
\* whose challenge lies within the range
IterationEnded(fisch_iter) ==
    IF PassingOfIteration(fisch_iter) = {}
    THEN proof[fisch_iter + 1] = Commitment(G1Mul(G1Generator, r_i[fisch_iter + 1]))
    ELSE /\ proof[fisch_iter + 1].tag = "BaseProof"
         /\ proof[fisch_iter + 1].schnorr.c + 1 <= maxc(difficulty)

\* C17: every Fischlin iteration terminates after examining at most
\* maxc(difficulty) candidate challenges, an iteration that found no passing
\* challenge ends as FischIter::Commitment(r_i*G), and Proof::prove, once
\* the iterations are started, eventually completes with all nfisch slots
\* filled (unless an assertion or an arithmetic check made it panic).
C17_ProveCompletes ==
    (pc = "mining") ~>
        \/ proveResult = Panic
        \/ /\ pc = "proved"
           /\ proveResult.kind = "Ok"
           /\ Len(proof) = nfisch
           /\ \A i \in 0..(nfisch - 1) : IterationEnded(i)

\* Proof::prove completed with four slots, one of an iteration that found
\* nothing and one of an iteration that found a challenge other than zero
C17_Witness ==
    /\ pc = "proved"
    /\ nfisch = 4
    /\ Len(proof) = 4
    /\ \A i \in 0..3 : IterationEnded(i)
    /\ \E i \in 1..4 : proof[i].tag = "Commitment"
    /\ \E i \in 1..4 : proof[i].tag = "BaseProof" /\ proof[i].schnorr.c > 0

\* C21: derive_indices accepts every data_len with 1 <= data_len <= 2^16
\* and every m <= 32, and rejects only inputs outside these bounds.
C21_DeriveIndicesBounds ==
    libCall.fn = "derive_indices" =>
        (libRet.kind = "Ok" <=>
            /\ 1 <= libCall.data_len
            /\ libCall.data_len <= 65536
            /\ libCall.num_indices <= 32)

\* C22: for every permitted difficulty d (0 <= d <= 64), maxc(d) returns
\* 2^d, representable in its u32 result without overflow or wrap-around.
C22_MaxcIsTwoToTheDifficulty ==
    (libCall.fn = "maxc" /\ libCall.difficulty <= 64) =>
        /\ libRet.kind = "Ok"
        /\ libCall.difficulty < 32
        /\ libRet.val = Pow2(libCall.difficulty)

\* bit b (0 the lowest) of the first u64 word of a hash
BitOfWord0(h, b) == (h[(b \div 16) + 1] \div Pow2(b % 16)) % 2

\* C23: for every 8-word hash h and every difficulty d <= 64, pow_pass(h, d)
\* is true exactly when the d lowest bits of h[0] are all zero; in
\* particular pow_pass(h, 0) is true for every h and pow_pass of the
\* all-zero hash is true for every d <= 64.
C23_PowPassLowBitsZero ==
    (libCall.fn = "pow_pass" /\ libCall.difficulty <= 64) =>
        /\ libRet.kind = "Ok"
        /\ libRet.val <=>
              \A b \in 0..(libCall.difficulty - 1) :
                  BitOfWord0(libCall.hash_output, b) = 0
        /\ libCall.difficulty = 0 => libRet.val
        /\ libCall.hash_output = HashOutputDefault => libRet.val

\* a hash whose first word has exactly 33 trailing zero bits passed at
\* difficulty 33
C23_Witness ==
    /\ libCall.fn = "pow_pass"
    /\ libCall.difficulty = 33
    /\ libCall.hash_output[1] = 0
    /\ libCall.hash_output[2] = 0
    /\ libCall.hash_output[3] = 2
    /\ libRet = Ok(TRUE)

\* bit b (0 the lowest) of a u16 value
BitOf(v, b) == (v \div Pow2(b)) % 2

\* C29: bitxor is an element-wise XOR of two equal-length arrays that is
\* its own inverse: bitxor(bitxor(a, b), b) = a for all arrays a, b of the
\* same length, and the result has that same length.
C29_BitxorInvolution ==
    libCall.fn = "bitxor" =>
        /\ Len(libRet.xored) = Len(libCall.x)
        /\ \A l \in 1..Len(libCall.x) : \A b \in 0..15 :
              BitOf(libRet.xored[l], b)
                  = (BitOf(libCall.x[l], b) + BitOf(libCall.y[l], b)) % 2
        /\ libRet.back = libCall.x

\* two different arrays, neither all zero, were xor-ed to a third
C29_Witness ==
    /\ libCall.fn = "bitxor"
    /\ libCall.x # libCall.y
    /\ libCall.x # HashOutputDefault
    /\ libCall.y # HashOutputDefault
    /\ libRet.xored # libCall.x
    /\ libRet.xored # libCall.y
    /\ \E l \in 1..Lanes : libCall.x[l] > 255 /\ libCall.y[l] > 255
    /\ libRet.back = libCall.x

\* C28: for fixed pk, a and c there is exactly one response z for which
\* Schnorr::verify returns true; changing z, c or a alone in a verifying
\* transcript makes verify return false.
C28_SchnorrTranscriptUnique ==
    libCall.fn = "Schnorr::verify" =>
        /\ Cardinality(libRet.responses) = 1
        /\ libRet.verified =>
              /\ libRet.responses = {libCall.z}
              /\ libRet.challenges = {libCall.c}
              /\ libRet.commitments = {libCall.a}

\* C24: Proof::verify returns true only for a proof that contains at least
\* one BaseProof slot that verifies; in particular a proof with zero slots
\* is not accepted.
C24_AcceptedProofHasValidSlot ==
    (VerifyEnded /\ verifyResult = Ok(TRUE)) =>
        /\ Len(proof) > 0
        /\ \E i \in 1..Len(proof) :
              proof[i].tag = "BaseProof" /\ verifications[i] = Ok(TRUE)

\* C25: replacing slot i of a proof by FischIter::Commitment(a_i), where a_i
\* is that slot's Schnorr commitment, leaves the recomputed prelude
\* unchanged and leaves the verification outcome of every other slot j # i
\* unchanged.
C25_ReplacementFrame ==
    (proveResult.kind = "Ok" /\ replaced # {} /\ pc = "done") =>
        LET before == ProofPrelude(fisch_iters, PublicKey, com)
        IN  /\ ProofPrelude(proof, PublicKey, com) = before
            /\ verifications # <<>> => verifierPrelude = before
            /\ \A j \in (0..(Len(proof) - 1)) \ replaced :
                  /\ proof[j + 1] = fisch_iters[j + 1]
                  /\ (/\ j + 1 \in DOMAIN verifications
                      /\ verifications[j + 1].kind \in {"Ok", "Panic"}) =>
                        verifications[j + 1] =
                            FischIterVerify(fisch_iters[j + 1], j, before,
                                            PublicKey, com, VerifyCtx(0))

\* a slot was replaced and another slot, left in place, verified as a valid
\* BaseProof
C25_Witness ==
    /\ proveResult.kind = "Ok"
    /\ pc = "done"
    /\ replaced # {}
    /\ \E j \in (0..(Len(proof) - 1)) \ replaced :
          /\ proof[j + 1].tag = "BaseProof"
          /\ j + 1 \in DOMAIN verifications
          /\ verifications[j + 1] = Ok(TRUE)
    /\ \E i \in replaced : proof[i + 1].tag = "Commitment"
    /\ verifierPrelude = proverPrelude

\* what slot i returns: what it returned when it was run, and for a slot
\* the collect skipped what it returns with a backend that does not fail
SlotOutcome(i) ==
    IF verifications[i] # NotRun THEN verifications[i]
    ELSE FischIterVerify(proof[i], i - 1, verifierPrelude, PublicKey, com,
                         VerifyCtx(0))

\* the slots verified one after the other in index order: the first Err or
\* panic ends the call, otherwise the passed slots are counted
SequentialVerify ==
    LET outs == [i \in 1..Len(proof) |-> SlotOutcome(i)]
        stops == {i \in 1..Len(proof) : outs[i].kind \in {"Err", "Panic"}}
    IN  IF stops = {} THEN Ok(Threshold(Passed(outs), Len(proof)))
        ELSE outs[CHOOSE i \in stops : \A j \in stops : i <= j]

OutcomeClass(r) ==
    IF r.kind = "Ok" THEN (IF r.val THEN "Ok(true)" ELSE "Ok(false)")
    ELSE r.kind

\* C26: the outcome class of Proof::verify (Err, Ok(true) or Ok(false)) and
\* the count of passed slots are the same under every scheduling of the
\* parallel per-slot verifications, and equal those of verifying the slots
\* sequentially in index order.
C26_SchedulingIndependent ==
    (pc = "done" /\ Len(proof) % 2 = 0 /\ Len(verifications) = Len(proof)) =>
        /\ OutcomeClass(verifyResult) = OutcomeClass(SequentialVerify)
        /\ verifyResult.kind = "Ok" =>
              /\ \A i \in 1..Len(proof) : verifications[i].kind = "Ok"
              /\ verifyResult = Ok(Threshold(Passed(verifications), Len(proof)))

\* the challenge bound of slot i (1-based) was evaluated and holds
BoundHolds(i) ==
    /\ ~MaxcPanics(difficulty, overflowChecks)
    /\ ChallengeInBound(proof[i].schnorr.c, difficulty)

\* the opening at position k of slot i (1-based) is a valid KZG opening
OpeningHolds(i, k) ==
    LET indices == derive_indices(i - 1, proof[i].schnorr.c, mvalue, Len(chunks))
    IN  check_proof_single(com, proof[i].openings[k],
                           get_point(Len(chunks), indices[k]), proof[i].data[k])

\* the proof-of-work test on the positions 1..n of slot i (1-based)
WorkHolds(i, n) ==
    pow_pass(PowHash(verifierPrelude, proof[i].schnorr, i - 1,
                     SubSeq(proof[i].data, 1, n), SubSeq(proof[i].openings, 1, n),
                     1, HashOutputDefault),
             difficulty)

\* C27: BaseProof::verify performs its checks in the order challenge bound,
\* Schnorr equation, per-position KZG openings, proof-of-work, and returns
\* Ok(false) at the first failing check; a slot failing the challenge bound
\* or the Schnorr equation never calls the KZG backend and so never
\* produces Err.  (A panic of maxc, of an assertion or of pow_pass is no
\* failing check: it ends the call without a result.)
C27_CheckOrder ==
    \A i \in 1..Len(verifications) :
        (verifications[i] # NotRun /\ proof[i].tag = "BaseProof") =>
            LET out == verifications[i]
                calls == kzgCalls[i]
                failsFirst == \/ ~MaxcPanics(difficulty, overflowChecks) /\ ~BoundHolds(i)
                              \/ BoundHolds(i) /\ ~SchnorrVerify(proof[i].schnorr, PublicKey)
            IN  /\ failsFirst => out = Ok(FALSE) /\ calls = 0
                /\ MaxcPanics(difficulty, overflowChecks) => out = Panic /\ calls = 0
                /\ out.kind = "Err" => calls > 0
                /\ calls > 0 =>
                      /\ BoundHolds(i)
                      /\ SchnorrVerify(proof[i].schnorr, PublicKey)
                      /\ \A k \in 1..(calls - 1) : OpeningHolds(i, k)
                /\ (out = Ok(FALSE) /\ ~failsFirst) =>
                      \/ calls > 0 /\ ~OpeningHolds(i, calls)
                      \/ /\ \A k \in 1..calls : OpeningHolds(i, k)
                         /\ ~WorkHolds(i, calls)
                /\ out = Ok(TRUE) =>
                      /\ BoundHolds(i)
                      /\ SchnorrVerify(proof[i].schnorr, PublicKey)
                      /\ \A k \in 1..calls : OpeningHolds(i, k)
                      /\ WorkHolds(i, calls)

\* one slot failed the Schnorr equation and returned Ok(false) without a
\* call of the backend; another slot returned Ok(false) at a failing
\* opening after its Schnorr check passed
C27_Witness ==
    /\ pc = "done"
    /\ \E i \in 1..Len(verifications) :
          /\ proof[i].tag = "BaseProof"
          /\ BoundHolds(i)
          /\ ~SchnorrVerify(proof[i].schnorr, PublicKey)
          /\ Len(proof[i].openings) > 0
          /\ verifications[i] = Ok(FALSE)
          /\ kzgCalls[i] = 0
    /\ \E j \in 1..Len(verifications) :
          /\ proof[j].tag = "BaseProof"
          /\ verifications[j] = Ok(FALSE)
          /\ kzgCalls[j] > 0
          /\ ~OpeningHolds(j, kzgCalls[j])
=============================================================================
